---- MODULE Spec2Model ----
(***************************************************************************)
(* A model of the CRF / DRF document library (src/src/crf/models.py and    *)
(* src/src/drf/models.py): the pydantic schemas, the factories, the        *)
(* builder methods and the JSON / YAML codecs.                             *)
(*                                                                         *)
(* Three layers of values are kept apart:                                  *)
(*   typed   a validated model instance: a record with every declared     *)
(*           field; an optional field holds None (<<>>) or Some(v)         *)
(*           (<<v>>); a UUID is an abstract number, a datetime a clock     *)
(*           reading.                                                      *)
(*   tree    what model_dump(mode="json", exclude_none=True) produces and  *)
(*           model_validate consumes: a dict with only the present keys,   *)
(*           UUIDs and datetimes as text, enum members as their tokens.    *)
(*   text    the JSON or YAML document: the tree with the scalars of the   *)
(*           dynamically typed positions (FactAttributes.value, the extra  *)
(*           top-level keys) written out as tokens.                        *)
(* Values in schema-typed positions have the base type the schema names;   *)
(* what validation decides there is membership, bounds, length and         *)
(* parseability. Dynamically typed values are tagged tuples.               *)
(***************************************************************************)
EXTENDS Integers, Sequences, FiniteSets, TLC

\* doc    the document the caller holds (NoDoc before a constructor returned)
\* last   the last call: its name, arguments, outcome and returned text
\* clock  the number of calls made; datetime.utcnow() reads it
\* born   how the document held was constructed: by which call, with which
\*        arguments, and the identifier and creation timestamp it got
\* disk   the files save has written: the text at each path (NoText: no file)
VARIABLES doc, last, clock, born, disk

vars == <<doc, last, clock, born, disk>>

(***************************************************************************)
(* Bounds of the model.                                                    *)
(***************************************************************************)
\* number of calls (constructor, builder, codec) in one behaviour
MaxCalls == 4

(***************************************************************************)
(* Option values and dicts.                                                *)
(***************************************************************************)
None == <<>>

Some(v) == <<v>>

EmptyDict == <<>>

\* a keyword argument that is left out when its value is None (every such
\* parameter's field defaults to None, so the instance is the same)
Kw(key, opt) == IF opt = None THEN EmptyDict ELSE key :> opt[1]

Restrict(d, keys) == [k \in (DOMAIN d) \cap keys |-> d[k]]

(***************************************************************************)
(* UUIDs and timestamps and their text forms.                              *)
(***************************************************************************)
\* the abstract UUIDs a behaviour can see
Uuids == {1, 2}

\* str(UUID): the canonical 36-character hyphenated form
UuidStr(u) == "00000000-0000-4000-8000-00000000000" \o ToString(u)

\* the clock readings a behaviour can see
Times == 0..(MaxCalls + 1)

\* datetime.isoformat() of a naive datetime, as pydantic's JSON mode writes it
IsoStr(t) == "2024-01-01T00:00:" \o (IF t < 10 THEN "0" ELSE "") \o ToString(t)

(***************************************************************************)
(* Enumerated vocabularies (DRF).                                          *)
(***************************************************************************)
CognitivePhase == {"exploration", "analysis", "synthesis", "decision"}

ReasoningPattern == {"operational", "risk_based", "contrafactual", "comparative", "cost_benefit", "intuitive", "deliberative", "heuristic", "systematic", "creative", "consensus", "authority", "delegation", "voting", "escalation"}

InterventionType == {"question", "challenge", "constraint", "insight", "external_input"}

Impact == {"low", "medium", "high", "critical"}

DecisionStatus == {"draft", "review", "approved", "rejected", "superseded", "archived"}

Priority == {"must_have", "should_have", "nice_to_have"}

Role == {"author", "reviewer", "approver", "contributor", "stakeholder"}

Relationship == {"supersedes", "superseded_by", "depends_on", "dependency_of", "related_to", "conflicts_with"}

ValidationStatus == {"satisfied", "violated", "acknowledged", "not_applicable"}

ContextEntityType == {"organization", "system", "policy", "fact", "architecture", "capability"}

ContextAction == {"creates", "updates", "invalidates"}

(***************************************************************************)
(* Enumerated vocabularies (CRF).                                          *)
(***************************************************************************)
EntityType == {"organization", "system", "policy", "fact", "architecture", "capability"}

RelationshipType == {"owns", "owned_by", "depends_on", "dependency_of", "constrains", "constrained_by", "invalidates", "invalidated_by", "part_of", "contains", "produces", "produced_by", "related_to"}

OrgType == {"company", "division", "department", "team", "squad", "working_group"}

OrgSize == {"startup", "small", "medium", "large", "enterprise"}

SystemType == {"application", "service", "platform", "infrastructure", "database", "integration", "tool"}

SystemStatus == {"planned", "development", "staging", "production", "deprecated", "decommissioned"}

Criticality == {"low", "medium", "high", "critical"}

DataClassification == {"public", "internal", "confidential", "restricted"}

PolicyType == {"governance", "security", "compliance", "architectural", "operational", "financial"}

Enforcement == {"mandatory", "recommended", "advisory"}

FactType == {"contract", "budget", "timeline", "constraint", "metric", "event", "status"}

ArchitectureType == {"pattern", "principle", "standard", "guideline", "reference", "decision"}

Maturity == {"emerging", "established", "mature", "declining", "deprecated"}

AdoptionStatus == {"proposed", "pilot", "adopted", "standard", "retiring"}

CapabilityType == {"skill", "tool", "process", "practice", "certification"}

Proficiency == {"none", "beginner", "intermediate", "advanced", "expert"}

StrategicImportance == {"low", "medium", "high", "critical"}

(***************************************************************************)
(* Field types and field declarations.                                     *)
(***************************************************************************)
Str == <<"str">>

\* Field(..., min_length=lo, max_length=hi)
StrLen(lo, hi) == <<"strlen", lo, hi>>

\* Field(..., min_length=lo)
StrMin(lo) == <<"strmin", lo>>

\* Field(..., ge=lo, le=hi)
IntRange(lo, hi) == <<"intrange", lo, hi>>

\* Field(..., ge=lo)
IntGe(lo) == <<"intge", lo>>

Bool == <<"bool">>

Enum(tokens) == <<"enum", tokens>>

Uuid == <<"uuid">>

DateTime == <<"datetime">>

\* a calendar date: validated and written like a datetime, without the time
Date == <<"date">>

Model(schema) == <<"model", schema>>

List(kind) == <<"list", kind>>

\* a value the schema does not type further (Any, dict[str, Any], list[str]...)
Opaque == <<"opaque">>

\* str | int | float | bool | dict[str, Any]
DynValue == <<"value">>

\* the six-way union of attribute models, by the names of its members
Union(members) == <<"union", members>>

\* name: T  (required)
Req(kind) == [kind |-> kind, opt |-> FALSE, req |-> TRUE, def |-> <<"none">>]

\* name: T | None = None
Opt(kind) == [kind |-> kind, opt |-> TRUE, req |-> FALSE, def |-> <<"none">>]

\* name: T = d
Def(kind, d) == [kind |-> kind, opt |-> FALSE, req |-> FALSE, def |-> <<"val", d>>]

\* name: T = Field(default_factory=how)
Fac(kind, how) == [kind |-> kind, opt |-> FALSE, req |-> FALSE, def |-> <<"factory", how>>]

(***************************************************************************)
(* DRF sub-models.                                                         *)
(***************************************************************************)
Constraint == [description |-> Req(Str), source |-> Opt(Str), negotiable |-> Def(Bool, FALSE)]

Objective == [description |-> Req(Str), priority |-> Opt(Enum(Priority)), measurable |-> Def(Bool, FALSE)]

Environment == [technical |-> Opt(Str), organizational |-> Opt(Str), temporal |-> Opt(Str)]

RelatedDecision == [id |-> Req(Uuid), relationship |-> Req(Enum(Relationship)), description |-> Opt(Str)]

Intervention == [id |-> Req(Str), type |-> Req(Enum(InterventionType)), content |-> Req(Str), source |-> Opt(Str), timestamp |-> Opt(DateTime), impact |-> Opt(Str)]

Assumption == [description |-> Req(Str), validated |-> Req(Bool), confidence |-> Opt(IntRange(0, 100)), source |-> Opt(Str)]

Tension == [description |-> Req(Str), impact |-> Req(Enum(Impact)), mitigation |-> Opt(Str), accepted_by |-> Opt(Str)]

FollowUp == [action |-> Req(Str), owner |-> Opt(Str), due_date |-> Opt(Date)]

Alternative == [decision |-> Req(Str), rationale_against |-> Req(Str), conditions_for_reconsideration |-> Opt(Str)]

Actor == [name |-> Req(Str), role |-> Req(Enum(Role)), email |-> Opt(Str)]

ContextRef == [context_id |-> Req(Uuid), context_type |-> Req(Enum(ContextEntityType)), context_name |-> Opt(Str), validation_status |-> Req(Enum(ValidationStatus)), advisory_notes |-> Opt(Str)]

ContextOutput == [action |-> Req(Enum(ContextAction)), entity_type |-> Req(Enum(ContextEntityType)), entity_id |-> Opt(Uuid), entity_data |-> Opt(Opaque), reason |-> Opt(Str)]

(***************************************************************************)
(* DRF main components and root.                                           *)
(***************************************************************************)
DecisionIdentity == [id |-> Fac(Uuid, "uuid4"), title |-> Req(StrLen(1, 200)), domain |-> Opt(Str), intent |-> Req(StrMin(1)), related_decisions |-> Opt(List(Model(RelatedDecision)))]

Context == [constraints |-> Fac(List(Model(Constraint)), "list"), objectives |-> Fac(List(Model(Objective)), "list"), environment |-> Opt(Model(Environment))]

CognitiveState == [phase |-> Req(Enum(CognitivePhase)), confidence |-> Req(IntRange(0, 100)), phase_notes |-> Opt(Str)]

Reasoning == [patterns_applied |-> Opt(List(Enum(ReasoningPattern))), notes |-> Opt(Str)]

Synthesis == [decision |-> Req(Str), rationale |-> Req(Str), follow_ups |-> Opt(List(Model(FollowUp))), alternatives |-> Opt(List(Model(Alternative)))]

ContextValidation == [validated_at |-> Opt(DateTime), context_refs |-> Opt(List(Model(ContextRef))), context_outputs |-> Opt(List(Model(ContextOutput)))]

Meta == [created_at |-> Fac(DateTime, "utcnow"), updated_at |-> Opt(DateTime), status |-> Def(Enum(DecisionStatus), "draft"), actors |-> Opt(List(Model(Actor))), source |-> Opt(Str), tags |-> Opt(Opaque)]

DecisionDocument == [drf_version |-> Def(Str, "0.1.0"), decision |-> Req(Model(DecisionIdentity)), context |-> Req(Model(Context)), cognitive_state |-> Req(Model(CognitiveState)), reasoning |-> Opt(Model(Reasoning)), interventions |-> Opt(List(Model(Intervention))), assumptions |-> Opt(List(Model(Assumption))), unresolved_tensions |-> Opt(List(Model(Tension))), synthesis |-> Req(Model(Synthesis)), context_validation |-> Opt(Model(ContextValidation)), meta |-> Fac(Model(Meta), "model")]

(***************************************************************************)
(* CRF attribute models, sub-models, entity and root.                      *)
(***************************************************************************)
OrganizationAttributes == [org_type |-> Opt(Enum(OrgType)), size |-> Opt(Enum(OrgSize)), headcount |-> Opt(IntGe(1)), location |-> Opt(Str), industry |-> Opt(Str), compliance_frameworks |-> Opt(Opaque)]

SystemAttributes == [system_type |-> Opt(Enum(SystemType)), status |-> Opt(Enum(SystemStatus)), criticality |-> Opt(Enum(Criticality)), technology_stack |-> Opt(Opaque), hosting |-> Opt(Str), data_classification |-> Opt(Enum(DataClassification))]

PolicyAttributes == [policy_type |-> Opt(Enum(PolicyType)), enforcement |-> Opt(Enum(Enforcement)), scope |-> Opt(Str), rationale |-> Opt(Str), exceptions_process |-> Opt(Str), owner |-> Opt(Str), review_cycle |-> Opt(Str)]

FactAttributes == [fact_type |-> Opt(Enum(FactType)), value |-> Opt(DynValue), unit |-> Opt(Str), confidence |-> Opt(IntRange(0, 100)), source_reference |-> Opt(Str), verified |-> Opt(Bool), verified_at |-> Opt(DateTime)]

ArchitectureAttributes == [architecture_type |-> Opt(Enum(ArchitectureType)), domain |-> Opt(Str), maturity |-> Opt(Enum(Maturity)), adoption_status |-> Opt(Enum(AdoptionStatus)), alternatives |-> Opt(Opaque)]

CapabilityAttributes == [capability_type |-> Opt(Enum(CapabilityType)), proficiency |-> Opt(Enum(Proficiency)), coverage |-> Opt(IntRange(0, 100)), training_available |-> Opt(Bool), strategic_importance |-> Opt(Enum(StrategicImportance))]

Validity == [valid_from |-> Opt(DateTime), valid_until |-> Opt(DateTime)]

CRFRelationship == [target_id |-> Req(Uuid), type |-> Req(Enum(RelationshipType)), description |-> Opt(Str)]

Supersedes == [entity_id |-> Req(Uuid), reason |-> Opt(Str), superseded_at |-> Opt(DateTime)]

Provenance == [source |-> Req(Str), created_at |-> Fac(DateTime, "utcnow"), created_by |-> Opt(Str), updated_at |-> Opt(DateTime), updated_by |-> Opt(Str)]

\* the union's members in declaration order
EntityAttributes == <<"OrganizationAttributes", "SystemAttributes", "PolicyAttributes", "FactAttributes", "ArchitectureAttributes", "CapabilityAttributes">>

\* the schema of a member of the union, by its class name
AttributesSchema(cls) == CASE cls = "OrganizationAttributes" -> OrganizationAttributes [] cls = "SystemAttributes" -> SystemAttributes [] cls = "PolicyAttributes" -> PolicyAttributes [] cls = "FactAttributes" -> FactAttributes [] cls = "ArchitectureAttributes" -> ArchitectureAttributes [] cls = "CapabilityAttributes" -> CapabilityAttributes

Entity == [id |-> Fac(Uuid, "uuid4"), type |-> Req(Enum(EntityType)), name |-> Req(StrLen(1, 200)), description |-> Opt(Str), attributes |-> Opt(Union(EntityAttributes)), validity |-> Opt(Model(Validity)), relationships |-> Opt(List(Model(CRFRelationship))), supersedes |-> Opt(Model(Supersedes)), provenance |-> Opt(Model(Provenance)), tags |-> Opt(Opaque)]

ContextDocument == [crf_version |-> Def(Str, "0.1.0"), entity |-> Req(Model(Entity))]

(***************************************************************************)
(* Validation (pydantic's model construction and model_validate).          *)
(* A result is [ok, v]: v is the typed value when ok. env gives what the   *)
(* default factories return during this call: env.id for uuid4(), env.now  *)
(* for datetime.utcnow().                                                  *)
(***************************************************************************)
Ok(v) == [ok |-> TRUE, v |-> v]

Bad == [ok |-> FALSE, v |-> <<>>]

\* a JSON null / Python None given for a dynamically typed optional field
IsNull(kind, x) == kind[1] = "value" /\ x = <<"null">>

RECURSIVE ValidateKind(_, _, _)
RECURSIVE Construct(_, _, _, _)
RECURSIVE Default(_, _)
RECURSIVE SmartUnion(_, _, _)

\* the value a field takes when the input does not give it
Default(spec, env) == IF spec.opt THEN Ok(None) ELSE IF spec.def[1] = "val" THEN Ok(spec.def[2]) ELSE CASE spec.def[2] = "uuid4" -> Ok(env.id) [] spec.def[2] = "utcnow" -> Ok(env.now) [] spec.def[2] = "list" -> Ok(<<>>) [] spec.def[2] = "model" -> Construct(spec.kind[2], EmptyDict, EmptyDict, env)

\* a validated value as the field holds it: Some(v) in an optional field
Wrapped(spec, r) == IF r.ok THEN Ok(IF spec.opt THEN Some(r.v) ELSE r.v) ELSE Bad

\* the result for one field of a model under construction
FieldResult(schema, insts, kwargs, env, f) ==
  IF f \in DOMAIN insts THEN Ok(insts[f])
  ELSE IF f \in DOMAIN kwargs
  THEN IF schema[f].opt /\ IsNull(schema[f].kind, kwargs[f]) THEN Ok(None) ELSE Wrapped(schema[f], ValidateKind(schema[f].kind, kwargs[f], env))
  ELSE IF schema[f].req THEN Bad
  ELSE Default(schema[f], env)

\* the instance, when every field (or element) validated
Collect(rs) == IF \A f \in DOMAIN rs : rs[f].ok THEN Ok([f \in DOMAIN rs |-> rs[f].v]) ELSE Bad

\* cls(**kwargs) and cls.model_validate(kwargs) for a model with extra="ignore":
\* insts are the arguments that already are instances of their field's type
\* (taken as they are), kwargs the arguments that are validated
Construct(schema, insts, kwargs, env) == Collect([f \in DOMAIN schema |-> FieldResult(schema, insts, kwargs, env, f)])

\* the number of declared fields the input sets (pydantic's fields_set count)
FieldsSetCount(schema, x) == Cardinality((DOMAIN x) \cap (DOMAIN schema))

\* the member the leftmost-first rule picks: the first member that validates
LeftmostMember(oks, count) == CHOOSE i \in oks : \A j \in oks : i <= j

\* the member smart mode picks: the most fields set, the leftmost among equals
BestMember(oks, count) == CHOOSE i \in oks : \A j \in oks : count[j] < count[i] \/ (count[j] = count[i] /\ i <= j)

\* the members that validated
OkSet(rs) == {i \in DOMAIN rs : rs[i].ok}

\* the instance of the member picked among those that validated
Picked(members, rs, best) == Ok([cls |-> members[best], inst |-> rs[best].v])

\* the outcome of the union, given each member's result and fields-set count
Resolve(members, rs, count) == IF OkSet(rs) = {} THEN Bad ELSE Picked(members, rs, BestMember(OkSet(rs), count))

\* a union of models in smart mode: every member is tried on the input
SmartUnion(members, x, env) == Resolve(members, [i \in 1..Len(members) |-> Construct(AttributesSchema(members[i]), EmptyDict, x, env)], [i \in 1..Len(members) |-> FieldsSetCount(AttributesSchema(members[i]), x)])

\* the abstract UUID a text spells
ParseUuid(x) == IF \E u \in Uuids : UuidStr(u) = x THEN Ok(CHOOSE u \in Uuids : UuidStr(u) = x) ELSE Bad

\* the clock reading a text spells
ParseTime(x) == IF \E t \in Times : IsoStr(t) = x THEN Ok(CHOOSE t \in Times : IsoStr(t) = x) ELSE Bad

\* the validation of one value against a field type
ValidateKind(kind, x, env) ==
  CASE kind[1] \in {"str", "bool", "opaque", "value"} -> Ok(x)
    [] kind[1] = "strlen" -> IF Len(x) >= kind[2] /\ Len(x) <= kind[3] THEN Ok(x) ELSE Bad
    [] kind[1] = "strmin" -> IF Len(x) >= kind[2] THEN Ok(x) ELSE Bad
    [] kind[1] = "intrange" -> IF x >= kind[2] /\ x <= kind[3] THEN Ok(x) ELSE Bad
    [] kind[1] = "intge" -> IF x >= kind[2] THEN Ok(x) ELSE Bad
    [] kind[1] = "enum" -> IF x \in kind[2] THEN Ok(x) ELSE Bad
    [] kind[1] = "uuid" -> ParseUuid(x)
    [] kind[1] \in {"datetime", "date"} -> ParseTime(x)
    [] kind[1] = "model" -> Construct(kind[2], EmptyDict, x, env)
    [] kind[1] = "list" -> Collect([i \in 1..Len(x) |-> ValidateKind(kind[2], x[i], env)])
    [] kind[1] = "union" -> SmartUnion(kind[2], x, env)

\* the keys of the input that the root model does not declare
ExtraKeys(schema, kwargs) == (DOMAIN kwargs) \ (DOMAIN schema)

\* a constructed root document with the input's undeclared keys ignored
DropExtra(schema, kwargs, r) == IF r.ok THEN Ok(r.v @@ [pydantic_extra |-> EmptyDict]) ELSE Bad

\* a constructed root document with the input's undeclared keys kept, with
\* their values, in pydantic_extra
WithExtra(schema, kwargs, r) == IF r.ok THEN Ok(r.v @@ [pydantic_extra |-> Restrict(kwargs, ExtraKeys(schema, kwargs))]) ELSE Bad

\* construction / validation of a root document (extra="allow")
ConstructRoot(schema, insts, kwargs, env) == WithExtra(schema, kwargs, Construct(schema, insts, kwargs, env))

(***************************************************************************)
(* Serialization to a tree: model_dump(mode="json", exclude_none=True).    *)
(***************************************************************************)
RECURSIVE Dump(_, _)
RECURSIVE DumpKind(_, _)

\* the fields of an instance that exclude_none keeps
PresentFields(schema, inst) == {f \in DOMAIN schema : ~(schema[f].opt /\ inst[f] = None)}

Dump(schema, inst) == [f \in PresentFields(schema, inst) |-> DumpKind(schema[f].kind, IF schema[f].opt THEN inst[f][1] ELSE inst[f])]

DumpKind(kind, v) ==
  CASE kind[1] = "uuid" -> UuidStr(v)
    [] kind[1] \in {"datetime", "date"} -> IsoStr(v)
    [] kind[1] = "model" -> Dump(kind[2], v)
    [] kind[1] = "list" -> [i \in 1..Len(v) |-> DumpKind(kind[2], v[i])]
    [] kind[1] = "union" -> Dump(AttributesSchema(v.cls), v.inst)
    [] OTHER -> v

\* every extra key, null-valued or not (a dump without exclude_none)
AllExtras(extra) == DOMAIN extra

\* the extra keys that exclude_none keeps
PresentExtras(extra) == {k \in DOMAIN extra : extra[k] # <<"null">>}

\* the dump of a root document: its fields and its extra keys
DumpRoot(schema, inst) == Dump(schema, inst) @@ Restrict(inst.pydantic_extra, PresentExtras(inst.pydantic_extra))

(***************************************************************************)
(* The text layer: json.dumps / json.loads and yaml.dump / yaml.safe_load  *)
(* on the dynamically typed values. A dynamic value is <<"int", i>>,       *)
(* <<"float", i>> (the float i.0), <<"str", s>>, <<"bool", b>>,            *)
(* <<"null">> or <<"map", d>>. A token is <<"plain", text>>,               *)
(* <<"quoted", text>> or <<"map", d>>.                                     *)
(***************************************************************************)
\* the integers whose spelling the model's texts can hold
Nums == {0, 1, 42, 500000}

IntText(i) == ToString(i)

FloatText(i) == ToString(i) \o ".0"

\* the type YAML's implicit resolver gives a plain scalar ("error": an
\* unclosed flow collection, which the YAML parser rejects)
YamlResolve(text) ==
  CASE text \in {"{", "["} -> "error"
    [] text \in {"null", "Null", "NULL", "~", ""} -> "null"
    [] text \in {"true", "True", "TRUE", "false", "False", "FALSE", "yes", "Yes", "YES", "no", "No", "NO", "on", "On", "ON", "off", "Off", "OFF"} -> "bool"
    [] \E i \in Nums : IntText(i) = text -> "int"
    [] \E i \in Nums : FloatText(i) = text -> "float"
    [] OTHER -> "str"

\* the type JSON's grammar gives an unquoted scalar ("error": not JSON)
JsonResolve(text) ==
  CASE text = "null" -> "null"
    [] text \in {"true", "false"} -> "bool"
    [] \E i \in Nums : IntText(i) = text -> "int"
    [] \E i \in Nums : FloatText(i) = text -> "float"
    [] OTHER -> "error"

\* a string scalar as yaml.dump writes it: quoted when it would otherwise
\* resolve to something that is not a string
YamlStr(s) == IF YamlResolve(s) = "str" THEN <<"plain", s>> ELSE <<"quoted", s>>

RECURSIVE Emit(_, _)
\* a dynamic value as a token of the encoding
Emit(enc, v) ==
  CASE v[1] = "int" -> <<"plain", IntText(v[2])>>
    [] v[1] = "float" -> <<"plain", FloatText(v[2])>>
    [] v[1] = "bool" -> <<"plain", IF v[2] THEN "true" ELSE "false">>
    [] v[1] = "null" -> <<"plain", "null">>
    [] v[1] = "str" -> IF enc = "json" THEN <<"quoted", v[2]>> ELSE YamlStr(v[2])
    [] v[1] = "map" -> <<"map", [k \in DOMAIN v[2] |-> Emit(enc, v[2][k])]>>

\* the value a plain scalar of resolved type ty spells
Spelled(ty, text) ==
  CASE ty = "null" -> <<"null">>
    [] ty = "bool" -> <<"bool", text \in {"true", "True", "TRUE", "yes", "Yes", "YES", "on", "On", "ON"}>>
    [] ty = "int" -> <<"int", CHOOSE i \in Nums : IntText(i) = text>>
    [] ty = "float" -> <<"float", CHOOSE i \in Nums : FloatText(i) = text>>
    [] ty = "str" -> <<"str", text>>

RECURSIVE Scan(_, _)
\* a token read back by the encoding's loader; <<"error">> when it (or a
\* token inside it) is not well-formed
Scan(enc, tok) ==
  CASE tok[1] = "quoted" -> <<"str", tok[2]>>
    [] tok[1] = "plain" -> LET ty == IF enc = "json" THEN JsonResolve(tok[2]) ELSE YamlResolve(tok[2])
                           IN  IF ty = "error" THEN <<"error">> ELSE Spelled(ty, tok[2])
    [] tok[1] = "map" -> LET m == [k \in DOMAIN tok[2] |-> Scan(enc, tok[2][k])]
                         IN  IF \E k \in DOMAIN m : m[k] = <<"error">> THEN <<"error">> ELSE <<"map", m>>

\* a dynamic value written (dir = "emit") or a token read back (dir = "scan")
Conv(dir, enc, x) == IF dir = "emit" THEN Emit(enc, x) ELSE Scan(enc, x)

\* an entity tree with its dynamically typed value (attributes.value) converted
ConvEntity(e, dir, enc) == IF "attributes" \in DOMAIN e /\ "value" \in DOMAIN e.attributes THEN [e EXCEPT !.attributes.value = Conv(dir, enc, @)] ELSE e

\* a document tree with every dynamically typed position converted: the keys the
\* root schema does not declare and the entity's attributes.value
ConvTree(schema, tree, dir, enc) == [k \in DOMAIN tree |-> IF k \notin DOMAIN schema THEN Conv(dir, enc, tree[k]) ELSE IF k = "entity" THEN ConvEntity(tree[k], dir, enc) ELSE tree[k]]

\* the dynamically typed values of a document tree
DynamicValues(schema, tree) == {tree[k] : k \in ExtraKeys(schema, tree)} \cup (IF "entity" \in DOMAIN tree /\ "attributes" \in DOMAIN tree.entity /\ "value" \in DOMAIN tree.entity.attributes THEN {tree.entity.attributes.value} ELSE {})

\* the text returned when no text is
NoText == [enc |-> "none", body |-> EmptyDict]

\* json.dumps / yaml.dump of a tree
EmitText(schema, enc, tree) == [enc |-> enc, body |-> ConvTree(schema, tree, "emit", enc)]

\* a text that is one scalar (the empty text is the scalar of no characters)
ScalarText(chars) == [enc |-> "raw", scalar |-> <<"plain", chars>>]

\* the loaded Python value: a dict (mapping) or something else
Loaded(mapping, value) == Ok([mapping |-> mapping, value |-> value])

\* the loader's result for a scalar text, from the value v it scanned
LoadedScalar(v) == IF v = <<"error">> THEN Bad ELSE Loaded(FALSE, v)

\* the loader's result for a mapping text, from the tree it scanned
LoadedMapping(schema, tree) == IF <<"error">> \in DynamicValues(schema, tree) THEN Bad ELSE Loaded(TRUE, tree)

\* json.loads (enc = "json") / yaml.safe_load (enc = "yaml") of a text: [ok, v].
\* YAML block text is not JSON; JSON text is YAML flow text.
LoadText(schema, enc, text) ==
  IF "scalar" \in DOMAIN text THEN LoadedScalar(Scan(enc, text.scalar))
  ELSE IF text.enc \notin {"json", "yaml"} \/ (enc = "json" /\ text.enc # "json") THEN Bad
  ELSE LoadedMapping(schema, ConvTree(schema, text.body, "scan", enc))

(***************************************************************************)
(* Outcomes of a call. A constructor returns [ok, v, err]; a builder       *)
(* returns [doc, err]: the document as the call leaves it, and the         *)
(* exception raised ("none" when it returned).                             *)
(***************************************************************************)
Built(v) == [ok |-> TRUE, v |-> v, err |-> "none"]

Raised(err) == [ok |-> FALSE, v |-> <<>>, err |-> err]

\* a construction result as a constructor outcome
Validated(r) == IF r.ok THEN Built(r.v) ELSE Raised("ValidationError")

Returned(self) == [doc |-> self, err |-> "none"]

Raises(self, err) == [doc |-> self, err |-> err]

\* no document (before construction, or when construction failed)
NoDoc == <<>>

IsDoc(d) == DOMAIN d # {}

IsDRF(d) == "decision" \in DOMAIN d

IsCRF(d) == "entity" \in DOMAIN d

\* the root schema of a document
RootSchema(d) == IF IsDRF(d) THEN DecisionDocument ELSE ContextDocument

(***************************************************************************)
(* DecisionDocument: factory and builder methods.                          *)
(***************************************************************************)
\* the optional assumptions list constructed empty instead of left absent
create_empty_lists(title, intent, domain, env) ==
  LET di == Construct(DecisionIdentity, EmptyDict, [title |-> title, intent |-> intent] @@ Kw("domain", domain), env)
      ctx == Construct(Context, EmptyDict, EmptyDict, env)
      cs == Construct(CognitiveState, EmptyDict, [phase |-> "exploration", confidence |-> 0], env)
      syn == Construct(Synthesis, EmptyDict, [decision |-> "", rationale |-> ""], env)
  IN  IF di.ok /\ ctx.ok /\ cs.ok /\ syn.ok
      THEN Validated(ConstructRoot(DecisionDocument, [decision |-> di.v, context |-> ctx.v, cognitive_state |-> cs.v, synthesis |-> syn.v], [assumptions |-> <<>>], env))
      ELSE Raised("ValidationError")

create(title, intent, domain, env) ==
  LET di == Construct(DecisionIdentity, EmptyDict, [title |-> title, intent |-> intent] @@ Kw("domain", domain), env)
      ctx == Construct(Context, EmptyDict, EmptyDict, env)
      cs == Construct(CognitiveState, EmptyDict, [phase |-> "exploration", confidence |-> 0], env)
      syn == Construct(Synthesis, EmptyDict, [decision |-> "", rationale |-> ""], env)
  IN  IF di.ok /\ ctx.ok /\ cs.ok /\ syn.ok
      THEN Validated(ConstructRoot(DecisionDocument, [decision |-> di.v, context |-> ctx.v, cognitive_state |-> cs.v, synthesis |-> syn.v], EmptyDict, env))
      ELSE Raised("ValidationError")

\* list.append at the front instead of the back
add_constraint_prepend(self, description, source, negotiable, env) ==
  LET c == Construct(Constraint, EmptyDict, [description |-> description, negotiable |-> negotiable] @@ Kw("source", source), env)
  IN  IF c.ok THEN Returned([self EXCEPT !.context.constraints = <<c.v>> \o @]) ELSE Raises(self, "ValidationError")

add_constraint(self, description, source, negotiable, env) ==
  LET c == Construct(Constraint, EmptyDict, [description |-> description, negotiable |-> negotiable] @@ Kw("source", source), env)
  IN  IF c.ok THEN Returned([self EXCEPT !.context.constraints = Append(@, c.v)]) ELSE Raises(self, "ValidationError")

add_objective(self, description, priority, measurable, env) ==
  LET o == Construct(Objective, EmptyDict, [description |-> description, measurable |-> measurable] @@ Kw("priority", priority), env)
  IN  IF o.ok THEN Returned([self EXCEPT !.context.objectives = Append(@, o.v)]) ELSE Raises(self, "ValidationError")

\* the phase assigned before the string is coerced to the enum
set_phase_unchecked(self, phase, confidence, env) ==
  LET s1 == [self EXCEPT !.cognitive_state.phase = phase]
      cs == Construct(CognitiveState, EmptyDict, [phase |-> phase, confidence |-> confidence], env)
  IN  IF phase \notin CognitivePhase THEN Raises(s1, "ValueError")
      ELSE IF cs.ok THEN Returned([self EXCEPT !.cognitive_state = cs.v]) ELSE Raises(self, "ValidationError")

\* the phase coerced to the enum and the record built without validation
\* (CognitiveState.model_construct)
set_phase_unbounded(self, phase, confidence, env) ==
  IF phase \notin CognitivePhase THEN Raises(self, "ValueError")
  ELSE Returned([self EXCEPT !.cognitive_state = [phase |-> phase, confidence |-> confidence, phase_notes |-> None]])

\* the phase and the confidence assigned into the record held
set_phase_merge(self, phase, confidence, env) ==
  LET cs == Construct(CognitiveState, EmptyDict, [phase |-> phase, confidence |-> confidence], env)
  IN  IF phase \notin CognitivePhase THEN Raises(self, "ValueError")
      ELSE IF cs.ok THEN Returned([self EXCEPT !.cognitive_state.phase = cs.v.phase, !.cognitive_state.confidence = cs.v.confidence]) ELSE Raises(self, "ValidationError")

set_phase(self, phase, confidence, env) ==
  LET cs == Construct(CognitiveState, EmptyDict, [phase |-> phase, confidence |-> confidence], env)
  IN  IF phase \notin CognitivePhase THEN Raises(self, "ValueError")
      ELSE IF cs.ok THEN Returned([self EXCEPT !.cognitive_state = cs.v]) ELSE Raises(self, "ValidationError")

add_reasoning_pattern(self, pattern, env) ==
  LET s1 == IF self.reasoning = None
            THEN [self EXCEPT !.reasoning = Some(Construct(Reasoning, EmptyDict, [patterns_applied |-> <<>>], env).v)]
            ELSE self
      s2 == IF s1.reasoning[1].patterns_applied = None THEN [s1 EXCEPT !.reasoning[1].patterns_applied = Some(<<>>)] ELSE s1
  IN  IF pattern \notin ReasoningPattern THEN Raises(self, "ValueError")
      ELSE Returned([s2 EXCEPT !.reasoning[1].patterns_applied[1] = Append(@, pattern)])

\* the assumption appended as given, without validating it against its schema
add_assumption_unvalidated(self, description, validated, confidence, env) ==
  LET s1 == IF self.assumptions = None THEN [self EXCEPT !.assumptions = Some(<<>>)] ELSE self
  IN  Returned([s1 EXCEPT !.assumptions[1] = Append(@, [description |-> description, validated |-> validated, confidence |-> confidence, source |-> None])])

add_assumption(self, description, validated, confidence, env) ==
  LET s1 == IF self.assumptions = None THEN [self EXCEPT !.assumptions = Some(<<>>)] ELSE self
      a == Construct(Assumption, EmptyDict, [description |-> description, validated |-> validated] @@ Kw("confidence", confidence), env)
  IN  IF a.ok THEN Returned([s1 EXCEPT !.assumptions[1] = Append(@, a.v)]) ELSE Raises(s1, "ValidationError")

add_tension(self, description, impact, mitigation, env) ==
  LET s1 == IF self.unresolved_tensions = None THEN [self EXCEPT !.unresolved_tensions = Some(<<>>)] ELSE self
      t == Construct(Tension, EmptyDict, [description |-> description, impact |-> impact] @@ Kw("mitigation", mitigation), env)
  IN  IF impact \notin Impact THEN Raises(self, "ValueError")
      ELSE IF t.ok THEN Returned([s1 EXCEPT !.unresolved_tensions[1] = Append(@, t.v)]) ELSE Raises(s1, "ValidationError")

\* the synthesis replaced and the phase left as it was
synthesize_keep_phase(self, decision, rationale, env) ==
  LET syn == Construct(Synthesis, EmptyDict, [decision |-> decision, rationale |-> rationale], env)
  IN  IF syn.ok THEN Returned([self EXCEPT !.synthesis = syn.v]) ELSE Raises(self, "ValidationError")

\* the cognitive state replaced by a new record that carries the confidence
\* over (and so loses phase_notes)
synthesize_new_state(self, decision, rationale, env) ==
  LET syn == Construct(Synthesis, EmptyDict, [decision |-> decision, rationale |-> rationale], env)
      cs == Construct(CognitiveState, EmptyDict, [phase |-> "decision", confidence |-> self.cognitive_state.confidence], env)
  IN  IF syn.ok /\ cs.ok THEN Returned([self EXCEPT !.synthesis = syn.v, !.cognitive_state = cs.v]) ELSE Raises(self, "ValidationError")

\* the decision and the rationale assigned into the synthesis held
synthesize_keep_lists(self, decision, rationale, env) ==
  LET syn == Construct(Synthesis, EmptyDict, [decision |-> decision, rationale |-> rationale], env)
  IN  IF syn.ok THEN Returned([self EXCEPT !.synthesis.decision = syn.v.decision, !.synthesis.rationale = syn.v.rationale, !.cognitive_state.phase = "decision"]) ELSE Raises(self, "ValidationError")

synthesize(self, decision, rationale, env) ==
  LET syn == Construct(Synthesis, EmptyDict, [decision |-> decision, rationale |-> rationale], env)
  IN  IF syn.ok THEN Returned([self EXCEPT !.synthesis = syn.v, !.cognitive_state.phase = "decision"]) ELSE Raises(self, "ValidationError")

add_alternative(self, decision, rationale_against, env) ==
  LET s1 == IF self.synthesis.alternatives = None THEN [self EXCEPT !.synthesis.alternatives = Some(<<>>)] ELSE self
      a == Construct(Alternative, EmptyDict, [decision |-> decision, rationale_against |-> rationale_against], env)
  IN  IF a.ok THEN Returned([s1 EXCEPT !.synthesis.alternatives[1] = Append(@, a.v)]) ELSE Raises(s1, "ValidationError")

\* the approval time written to both timestamps of the metadata
approve_restamps(self, approver, env) ==
  LET s1 == [self EXCEPT !.meta.status = "approved", !.meta.updated_at = Some(env.now), !.meta.created_at = env.now]
      s2 == IF s1.meta.actors = None THEN [s1 EXCEPT !.meta.actors = Some(<<>>)] ELSE s1
      a == Construct(Actor, EmptyDict, [name |-> approver, role |-> "approver"], env)
  IN  IF a.ok THEN Returned([s2 EXCEPT !.meta.actors[1] = Append(@, a.v)]) ELSE Raises(s2, "ValidationError")

\* approval refused unless the decision is a draft or in review
approve_guarded(self, approver, env) ==
  LET s1 == [self EXCEPT !.meta.status = "approved", !.meta.updated_at = Some(env.now)]
      s2 == IF s1.meta.actors = None THEN [s1 EXCEPT !.meta.actors = Some(<<>>)] ELSE s1
      a == Construct(Actor, EmptyDict, [name |-> approver, role |-> "approver"], env)
  IN  IF self.meta.status \notin {"draft", "review"} THEN Raises(self, "ValueError")
      ELSE IF a.ok THEN Returned([s2 EXCEPT !.meta.actors[1] = Append(@, a.v)]) ELSE Raises(s2, "ValidationError")

\* an approver already listed is not listed again
approve_dedup(self, approver, env) ==
  LET s1 == [self EXCEPT !.meta.status = "approved", !.meta.updated_at = Some(env.now)]
      s2 == IF s1.meta.actors = None THEN [s1 EXCEPT !.meta.actors = Some(<<>>)] ELSE s1
      a == Construct(Actor, EmptyDict, [name |-> approver, role |-> "approver"], env)
  IN  IF ~a.ok THEN Raises(s2, "ValidationError")
      ELSE IF \E i \in 1..Len(s2.meta.actors[1]) : s2.meta.actors[1][i] = a.v THEN Returned(s2)
      ELSE Returned([s2 EXCEPT !.meta.actors[1] = Append(@, a.v)])

approve(self, approver, env) ==
  LET s1 == [self EXCEPT !.meta.status = "approved", !.meta.updated_at = Some(env.now)]
      s2 == IF s1.meta.actors = None THEN [s1 EXCEPT !.meta.actors = Some(<<>>)] ELSE s1
      a == Construct(Actor, EmptyDict, [name |-> approver, role |-> "approver"], env)
  IN  IF a.ok THEN Returned([s2 EXCEPT !.meta.actors[1] = Append(@, a.v)]) ELSE Raises(s2, "ValidationError")

(***************************************************************************)
(* Entity builder methods (called as doc.entity.method(...)): self is the  *)
(* document, the entity its field.                                         *)
(***************************************************************************)
add_relationship(self, target_id, rel_type, description, env) ==
  LET s1 == IF self.entity.relationships = None THEN [self EXCEPT !.entity.relationships = Some(<<>>)] ELSE self
      r == Construct(CRFRelationship, [target_id |-> target_id], [type |-> rel_type] @@ Kw("description", description), env)
  IN  IF rel_type \notin RelationshipType THEN Raises(self, "ValueError")
      ELSE IF r.ok THEN Returned([s1 EXCEPT !.entity.relationships[1] = Append(@, r.v)]) ELSE Raises(s1, "ValidationError")

set_validity(self, valid_from, valid_until, env) ==
  LET v == Construct(Validity, [valid_from |-> valid_from, valid_until |-> valid_until], EmptyDict, env)
  IN  IF v.ok THEN Returned([self EXCEPT !.entity.validity = Some(v.v)]) ELSE Raises(self, "ValidationError")

\* the superseded entity's identifier written to the entity's own id
supersede_takes_id(self, previous_entity_id, reason, env) ==
  LET sup == Construct(Supersedes, [entity_id |-> previous_entity_id, superseded_at |-> Some(env.now)], Kw("reason", reason), env)
  IN  IF sup.ok THEN Returned([self EXCEPT !.entity.supersedes = Some(sup.v), !.entity.id = previous_entity_id]) ELSE Raises(self, "ValidationError")

supersede(self, previous_entity_id, reason, env) ==
  LET sup == Construct(Supersedes, [entity_id |-> previous_entity_id, superseded_at |-> Some(env.now)], Kw("reason", reason), env)
  IN  IF sup.ok THEN Returned([self EXCEPT !.entity.supersedes = Some(sup.v)]) ELSE Raises(self, "ValidationError")

(***************************************************************************)
(* ContextDocument factories. The keyword arguments **attributes are a     *)
(* dict from name to None or Some(value).                                  *)
(***************************************************************************)
\* the keyword arguments that are not None, as validation input
GivenKwargs(attributes) == [k \in {a \in DOMAIN attributes : attributes[a] # None} |-> attributes[k][1]]

\* the body the five **attributes factories share: cls(entity=Entity(type=...,
\* name=..., description=..., attributes=Attrs(**attributes) if attributes
\* else None, provenance=Provenance(source="manual")))
CreateEntity(cls, type, name, description, attributes, env) ==
  LET at == Construct(AttributesSchema(cls), EmptyDict, GivenKwargs(attributes), env)
      attrs == IF DOMAIN attributes # {} THEN Some([cls |-> cls, inst |-> at.v]) ELSE None
      prov == Construct(Provenance, EmptyDict, [source |-> "manual"], env)
      e == Construct(Entity, [attributes |-> attrs, provenance |-> Some(prov.v)], [type |-> type, name |-> name] @@ Kw("description", description), env)
  IN  IF (DOMAIN attributes # {} /\ ~at.ok) \/ ~prov.ok \/ ~e.ok THEN Raised("ValidationError")
      ELSE Validated(ConstructRoot(ContextDocument, [entity |-> e.v], EmptyDict, env))

create_organization(name, description, attributes, env) == CreateEntity("OrganizationAttributes", "organization", name, description, attributes, env)

create_system(name, description, attributes, env) == CreateEntity("SystemAttributes", "system", name, description, attributes, env)

create_policy(name, description, attributes, env) == CreateEntity("PolicyAttributes", "policy", name, description, attributes, env)

create_architecture(name, description, attributes, env) == CreateEntity("ArchitectureAttributes", "architecture", name, description, attributes, env)

create_capability(name, description, attributes, env) == CreateEntity("CapabilityAttributes", "capability", name, description, attributes, env)

create_fact(name, value, fact_type, description, env) ==
  LET at == Construct(FactAttributes, EmptyDict, [fact_type |-> fact_type, value |-> value], env)
      prov == Construct(Provenance, EmptyDict, [source |-> "manual"], env)
      e == Construct(Entity, [attributes |-> Some([cls |-> "FactAttributes", inst |-> at.v]), provenance |-> Some(prov.v)], [type |-> "fact", name |-> name] @@ Kw("description", description), env)
  IN  IF fact_type \notin FactType THEN Raised("ValueError")
      ELSE IF ~at.ok \/ ~prov.ok \/ ~e.ok THEN Raised("ValidationError")
      ELSE Validated(ConstructRoot(ContextDocument, [entity |-> e.v], EmptyDict, env))

(***************************************************************************)
(* Serialization and deserialization of the two root documents.            *)
(***************************************************************************)
to_yaml(self) == EmitText(RootSchema(self), "yaml", DumpRoot(RootSchema(self), self))

to_json(self) == EmitText(RootSchema(self), "json", DumpRoot(RootSchema(self), self))

\* cls.model_validate(data) on loaded data: only a dict can be a document
model_validate(schema, data, env) == IF data.mapping THEN Validated(ConstructRoot(schema, EmptyDict, data.value, env)) ELSE Raised("ValidationError")

from_yaml(schema, content, env) ==
  LET data == LoadText(schema, "yaml", content)
  IN  IF data.ok THEN model_validate(schema, data.v, env) ELSE Raised("ParseError")

from_json(schema, content, env) ==
  LET data == LoadText(schema, "json", content)
  IN  IF data.ok THEN model_validate(schema, data.v, env) ELSE Raised("ParseError")

(***************************************************************************)
(* Files: save and load. A path is the sequence of its characters.         *)
(***************************************************************************)
\* the positions of the dots of a file name that start a suffix: not the
\* first character and not the last (pathlib's PurePath.suffix)
SuffixDots(path) == {i \in 2..(Len(path) - 1) : path[i] = "."}

\* Path(path).suffix: the file name from its last dot on, <<>> without one
Suffix(path) == IF SuffixDots(path) = {} THEN <<>> ELSE SubSeq(path, CHOOSE i \in SuffixDots(path) : \A j \in SuffixDots(path) : j <= i, Len(path))

\* path.suffix in (".yaml", ".yml")
IsYamlPath(path) == Suffix(path) \in {<<".", "y", "a", "m", "l">>, <<".", "y", "m", "l">>}

\* the content save writes to path
save(self, path) == IF IsYamlPath(path) THEN to_yaml(self) ELSE to_json(self)

\* cls.load(path) when the file holds content
load(schema, path, content, env) == IF IsYamlPath(path) THEN from_yaml(schema, content, env) ELSE from_json(schema, content, env)

(***************************************************************************)
(* Inputs of the calls.                                                    *)
(***************************************************************************)
\* file paths: d.yaml, d.yml, d.json and d
Paths == {<<"d", ".", "y", "a", "m", "l">>, <<"d", ".", "y", "m", "l">>, <<"d", ".", "j", "s", "o", "n">>, <<"d">>}

\* titles and names: a valid one and the empty string (below min_length)
Names == {"X", ""}

\* fact values: one of each member of the value union, and None
FactValues == {<<"int", 500000>>, <<"float", 1>>, <<"str", "500000">>, <<"bool", TRUE>>, <<"map", [k |-> <<"int", 1>>]>>, <<"map", [k |-> <<"null">>]>>, <<"null">>}

\* **attributes of the five keyword factories, by attribute class
AttributeKwargs(cls) ==
  CASE cls = "OrganizationAttributes" -> {EmptyDict, [headcount |-> Some(1)], [headcount |-> Some(0)], [org_type |-> Some("bogus")]}
    [] cls = "SystemAttributes" -> {EmptyDict, [status |-> Some("production")], [hosting |-> None]}
    [] cls = "PolicyAttributes" -> {[policy_type |-> Some("governance")]}
    [] cls = "ArchitectureAttributes" -> {[domain |-> Some("data")]}
    [] cls = "CapabilityAttributes" -> {[coverage |-> Some(100)], [coverage |-> Some(101)]}

\* a DecisionDocument tree as a caller may hand it to from_json / from_yaml
DecisionTree(phase, confidence, more) == [decision |-> [id |-> UuidStr(1), title |-> "X", intent |-> "Y"], context |-> [constraints |-> <<>>, objectives |-> <<>>], cognitive_state |-> [phase |-> phase, confidence |-> confidence], synthesis |-> [decision |-> "", rationale |-> ""]] @@ more

\* a ContextDocument tree as a caller may hand it to from_json / from_yaml
ContextTree(type, attributes, more) == [entity |-> [id |-> UuidStr(1), type |-> type, name |-> "X", attributes |-> attributes]] @@ more

\* a DecisionDocument tree with a status, a phase with notes, and a synthesis
\* with a follow-up
LifecycleTree(status, phase) == [DecisionTree(phase, 50, [meta |-> [status |-> status]]) EXCEPT !.cognitive_state = [phase |-> phase, confidence |-> 50, phase_notes |-> "N"], !.synthesis = [decision |-> "D0", rationale |-> "R0", follow_ups |-> <<[action |-> "f"]>>]]

\* every status and every phase, paired
Lifecycles == {<<"draft", "exploration">>, <<"review", "analysis">>, <<"approved", "synthesis">>, <<"rejected", "decision">>, <<"superseded", "exploration">>, <<"archived", "analysis">>}

ExternalDecisionTrees ==
  {DecisionTree("analysis", c, EmptyDict) : c \in {-1, 0, 100, 101}}
  \cup {LifecycleTree(l[1], l[2]) : l \in Lifecycles}
  \cup {DecisionTree("bogus", 0, EmptyDict)}
  \cup {DecisionTree("analysis", 50, [x_note |-> v]) : v \in {<<"str", "keep">>, <<"null">>}}
  \cup {DecisionTree("analysis", 50, [assumptions |-> <<[description |-> "a", validated |-> FALSE, confidence |-> c]>>]) : c \in {-1, 100}}

ExternalContextTrees ==
  {ContextTree("organization", [headcount |-> h], EmptyDict) : h \in {0, 1}}
  \cup {ContextTree("organization", [org_type |-> "bogus"], EmptyDict), ContextTree("bogus", [org_type |-> "team"], EmptyDict)}
  \cup {ContextTree("fact", [fact_type |-> "budget", confidence |-> c], EmptyDict) : c \in {-1, 101}}
  \cup {ContextTree("system", [status |-> "production"], [x_note |-> <<"int", 42>>])}

\* texts from outside that are no mapping: the empty text, null, 42, an
\* unclosed brace and a bare word
ExternalTexts == {ScalarText(chars) : chars \in {"", "null", "42", "{", "keep"}}

(***************************************************************************)
(* The state machine: one action per call.                                 *)
(***************************************************************************)
Id(d) == IF IsDRF(d) THEN d.decision.id ELSE d.entity.id

\* the creation timestamp of a document: meta.created_at (DRF),
\* provenance.created_at (CRF, None without provenance)
CreatedAt(d) == IF IsDRF(d) THEN Some(d.meta.created_at) ELSE IF d.entity.provenance = None THEN None ELSE Some(d.entity.provenance[1].created_at)

\* how a document came to be: the constructor called, its arguments, and the
\* identifier and creation timestamp the document had when it returned
Birth(op, args, d) == [by |-> op, args |-> args, id |-> Id(d), created_at |-> CreatedAt(d)]

\* what uuid4() (fresh) and datetime.utcnow() return during the call
Env(fresh) == [id |-> fresh, now |-> clock]

\* the birth record while no document was constructed
Unborn == [by |-> "none", args |-> <<>>, id |-> None, created_at |-> None]

Init ==
  /\ doc = NoDoc
  /\ last = [op |-> "none", ok |-> TRUE, err |-> "none", args |-> <<>>, out |-> NoText]
  /\ clock = 0
  /\ born = Unborn
  /\ disk = [path \in Paths |-> NoText]

\* a constructor (factory or decoder) called with args, with outcome r
Constructs(op, args, r) ==
  /\ clock < MaxCalls
  /\ doc' = IF r.ok THEN r.v ELSE doc
  /\ born' = IF r.ok THEN Birth(op, args, r.v) ELSE born
  /\ last' = [op |-> op, ok |-> r.ok, err |-> r.err, args |-> args, out |-> NoText]
  /\ clock' = clock + 1
  /\ UNCHANGED disk

\* a builder method called with args, with outcome r
Calls(op, args, r) ==
  /\ clock < MaxCalls
  /\ doc' = r.doc
  /\ last' = [op |-> op, ok |-> r.err = "none", err |-> r.err, args |-> args, out |-> NoText]
  /\ clock' = clock + 1
  /\ UNCHANGED <<born, disk>>

\* a serializer called, returning text
Emits(op, text) ==
  /\ clock < MaxCalls
  /\ last' = [op |-> op, ok |-> TRUE, err |-> "none", args |-> <<>>, out |-> text]
  /\ clock' = clock + 1
  /\ UNCHANGED <<doc, born, disk>>

\* save called: the file at path written, nothing returned
Writes(path, text) ==
  /\ clock < MaxCalls
  /\ disk' = [disk EXCEPT ![path] = text]
  /\ last' = [op |-> "save", ok |-> TRUE, err |-> "none", args |-> <<path>>, out |-> NoText]
  /\ clock' = clock + 1
  /\ UNCHANGED <<doc, born>>

Create == doc = NoDoc /\ \E title \in Names, domain \in {None, Some("Z")}, fresh \in Uuids : Constructs("create", <<title, "Y", domain>>, create(title, "Y", domain, Env(fresh)))

CreateOrganization == doc = NoDoc /\ \E name \in Names, kw \in AttributeKwargs("OrganizationAttributes") : Constructs("create_organization", <<name, kw>>, create_organization(name, None, kw, Env(1)))

CreateSystem == doc = NoDoc /\ \E kw \in AttributeKwargs("SystemAttributes") : Constructs("create_system", <<"X", kw>>, create_system("X", None, kw, Env(1)))

CreatePolicy == doc = NoDoc /\ \E kw \in AttributeKwargs("PolicyAttributes") : Constructs("create_policy", <<"X", kw>>, create_policy("X", None, kw, Env(1)))

CreateArchitecture == doc = NoDoc /\ \E kw \in AttributeKwargs("ArchitectureAttributes") : Constructs("create_architecture", <<"X", kw>>, create_architecture("X", None, kw, Env(1)))

CreateCapability == doc = NoDoc /\ \E kw \in AttributeKwargs("CapabilityAttributes") : Constructs("create_capability", <<"X", kw>>, create_capability("X", None, kw, Env(1)))

CreateFact == doc = NoDoc /\ \E value \in FactValues, fact_type \in {"budget", "bogus"} : Constructs("create_fact", <<"X", value, fact_type>>, create_fact("X", value, fact_type, None, Env(1)))

\* DecisionDocument.from_json / from_yaml on a text from outside
DecodeDecision == doc = NoDoc /\ \E enc \in {"json", "yaml"} : \E content \in {EmitText(DecisionDocument, enc, tree) : tree \in ExternalDecisionTrees} \cup ExternalTexts :
  Constructs("from_" \o enc, <<"DecisionDocument", content>>, IF enc = "json" THEN from_json(DecisionDocument, content, Env(2)) ELSE from_yaml(DecisionDocument, content, Env(2)))

\* ContextDocument.from_json / from_yaml on a text from outside
DecodeContext == doc = NoDoc /\ \E enc \in {"json", "yaml"} : \E content \in {EmitText(ContextDocument, enc, tree) : tree \in ExternalContextTrees} \cup ExternalTexts :
  Constructs("from_" \o enc, <<"ContextDocument", content>>, IF enc = "json" THEN from_json(ContextDocument, content, Env(2)) ELSE from_yaml(ContextDocument, content, Env(2)))

AddConstraint == IsDRF(doc) /\ \E description \in {"A", "B"} : Calls("add_constraint", <<description>>, add_constraint(doc, description, None, FALSE, Env(1)))

AddObjective == IsDRF(doc) /\ Calls("add_objective", <<"O">>, add_objective(doc, "O", Some("must_have"), TRUE, Env(1)))

SetPhase == IsDRF(doc) /\ \E a \in {<<"analysis", 50>>, <<"bogus", 50>>, <<"synthesis", 101>>} : Calls("set_phase", a, set_phase(doc, a[1], a[2], Env(1)))

AddReasoningPattern == IsDRF(doc) /\ \E pattern \in {"comparative", "bogus"} : Calls("add_reasoning_pattern", <<pattern>>, add_reasoning_pattern(doc, pattern, Env(1)))

AddAssumption == IsDRF(doc) /\ \E confidence \in {None, Some(75), Some(101)} : Calls("add_assumption", <<"a", confidence>>, add_assumption(doc, "a", TRUE, confidence, Env(1)))

AddTension == IsDRF(doc) /\ \E impact \in {"medium", "bogus"} : Calls("add_tension", <<"t", impact>>, add_tension(doc, "t", impact, None, Env(1)))

Synthesize == IsDRF(doc) /\ Calls("synthesize", <<"D", "R">>, synthesize(doc, "D", "R", Env(1)))

AddAlternative == IsDRF(doc) /\ Calls("add_alternative", <<"M", "N">>, add_alternative(doc, "M", "N", Env(1)))

Approve == IsDRF(doc) /\ Calls("approve", <<"Alice">>, approve(doc, "Alice", Env(1)))

AddRelationship == IsCRF(doc) /\ \E rel_type \in {"depends_on", "bogus"} : Calls("add_relationship", <<2, rel_type>>, add_relationship(doc, 2, rel_type, None, Env(1)))

SetValidity == IsCRF(doc) /\ \E a \in {<<Some(clock), None>>, <<None, Some(clock)>>} : Calls("set_validity", a, set_validity(doc, a[1], a[2], Env(1)))

Supersede == IsCRF(doc) /\ Calls("supersede", <<2>>, supersede(doc, 2, None, Env(1)))

ToJson == IsDoc(doc) /\ Emits("to_json", to_json(doc))

ToYaml == IsDoc(doc) /\ Emits("to_yaml", to_yaml(doc))

\* cls.from_json(text) on the text the previous call returned
FromJson == last.op \in {"to_json", "to_yaml"} /\ Constructs("from_json", <<last.op>>, from_json(RootSchema(doc), last.out, Env(2)))

\* cls.from_yaml(text) on the text the previous call returned
FromYaml == last.op \in {"to_json", "to_yaml"} /\ Constructs("from_yaml", <<last.op>>, from_yaml(RootSchema(doc), last.out, Env(2)))

\* doc.save(path)
Save == IsDoc(doc) /\ \E path \in Paths : Writes(path, save(doc, path))

\* cls.load(path); path.read_text() raises FileNotFoundError without a file
Load == IsDoc(doc) /\ \E path \in Paths : Constructs("load", <<path>>, IF disk[path] = NoText THEN Raised("FileNotFoundError") ELSE load(RootSchema(doc), path, disk[path], Env(2)))

Next ==
  \/ Create \/ CreateOrganization \/ CreateSystem \/ CreatePolicy \/ CreateArchitecture \/ CreateCapability \/ CreateFact
  \/ DecodeDecision \/ DecodeContext
  \/ AddConstraint \/ AddObjective \/ SetPhase \/ AddReasoningPattern \/ AddAssumption \/ AddTension \/ Synthesize \/ AddAlternative \/ Approve
  \/ AddRelationship \/ SetValidity \/ Supersede
  \/ ToJson \/ ToYaml \/ FromJson \/ FromYaml
  \/ Save \/ Load

Spec == Init /\ [][Next]_vars

(***************************************************************************)
(* Properties.                                                             *)
(***************************************************************************)
\* the builder methods of the two documents
BuilderOps == {"add_constraint", "add_objective", "set_phase", "add_reasoning_pattern", "add_assumption", "add_tension", "synthesize", "add_alternative", "approve", "add_relationship", "set_validity", "supersede"}

\* a step that decodes, with the decoder of the same encoding, the text the
\* previous call encoded from the document held
RoundTripStep == (last.op = "to_json" /\ last'.op = "from_json") \/ (last.op = "to_yaml" /\ last'.op = "from_yaml")

\* C1 (as stated): for every valid document d, from_json(to_json(d)) and
\* from_yaml(to_yaml(d)) succeed and return a document equal to d field for
\* field.
RoundTripLaw == [][RoundTripStep => (last'.ok /\ doc' = doc)]_vars

\* the value of FactAttributes.value after create_fact was given value
GivenValue(value) == IF value = <<"null">> THEN None ELSE Some(value)

IdentifierStable == IsDoc(doc) => Id(doc) = born.id

\* C3 witness: a document that was marked as superseding entity 2 and on which
\* a later add_relationship failed still has the identifier it was born with.
IdentifierKept == IsCRF(doc) /\ last.op = "add_relationship" /\ ~last.ok /\ doc.entity.supersedes # None /\ doc.entity.supersedes[1].entity_id # born.id /\ Id(doc) = born.id

\* a text from outside (the body of DecodeDecision's or DecodeContext's
\* argument) that holds a confidence outside 0..100, a headcount below 1 or an
\* enum field with a token outside its set
TextOffends(body) ==
  IF "decision" \in DOMAIN body
  THEN \/ body.cognitive_state.confidence \notin 0..100
       \/ body.cognitive_state.phase \notin CognitivePhase
       \/ "assumptions" \in DOMAIN body /\ \E i \in 1..Len(body.assumptions) : body.assumptions[i].confidence \notin 0..100
  ELSE \/ body.entity.type \notin EntityType
       \/ "headcount" \in DOMAIN body.entity.attributes /\ body.entity.attributes.headcount < 1
       \/ "confidence" \in DOMAIN body.entity.attributes /\ body.entity.attributes.confidence \notin 0..100
       \/ "org_type" \in DOMAIN body.entity.attributes /\ body.entity.attributes.org_type \notin OrgType

\* keyword arguments of create_organization with a headcount below 1 or an
\* org_type outside its set
KwOffends(kw) ==
  \/ "headcount" \in DOMAIN kw /\ kw.headcount # None /\ kw.headcount[1] < 1
  \/ "org_type" \in DOMAIN kw /\ kw.org_type # None /\ kw.org_type[1] \notin OrgType

\* the last call was a decoder called on a text from outside
DecodedOutside == last.op \in {"from_json", "from_yaml"} /\ Len(last.args) = 2 /\ "body" \in DOMAIN last.args[2]

\* the last call constructed or deserialized a record with an offending value
Offending ==
  \/ DecodedOutside /\ TextOffends(last.args[2].body)
  \/ last.op = "create_organization" /\ KwOffends(last.args[2])
  \/ last.op = "create_fact" /\ last.args[3] \notin FactType

\* the last call deserialized a valid record with confidence 0 or 100
AtBoundary == DecodedOutside /\ ~TextOffends(last.args[2].body) /\ "decision" \in DOMAIN last.args[2].body /\ (last.args[2].body.cognitive_state.confidence \in {0, 100} \/ ("assumptions" \in DOMAIN last.args[2].body /\ last.args[2].body.assumptions[1].confidence = 100))

\* C4 (as stated): constructing or deserializing a record with confidence -1
\* or 101, headcount 0 or an enum token outside its set fails and yields no
\* document; confidence 0 and 100 are accepted.
BoundEnforcement == (Offending => (~last.ok /\ doc = NoDoc)) /\ (AtBoundary => last.ok)

\* the Constraint add_constraint(description) constructs
ConstraintOf(description) == [description |-> description, source |-> None, negotiable |-> FALSE]

\* C5: every successful add_constraint(description) appends exactly that
\* constraint at the end of context.constraints and leaves the earlier
\* elements as they were; no other builder call (and no failed call) changes
\* the list. So the list is the constraints of the successful add_constraint
\* calls in call order.
AppendOrder == [][(IsDRF(doc) /\ last'.op \in BuilderOps) => doc'.context.constraints = IF last'.op = "add_constraint" /\ last'.ok THEN Append(doc.context.constraints, ConstraintOf(last'.args[1])) ELSE doc.context.constraints]_vars

\* C5 witness: add_constraint("A") then add_constraint("B"), with an
\* add_objective somewhere in the chain, on a created document: [A, B].
AppendedInOrder == IsDRF(doc) /\ born.by = "create" /\ last.op = "add_constraint" /\ Len(doc.context.objectives) = 1 /\ doc.context.constraints = <<ConstraintOf("A"), ConstraintOf("B")>>

\* C6: after synthesize(decision, rationale), whatever the phase was,
\* cognitive_state.phase is "decision", synthesis.decision is decision and
\* synthesis.rationale is rationale.
SynthesizeEffect == last.op = "synthesize" => (last.ok /\ doc.cognitive_state.phase = "decision" /\ doc.synthesis.decision = last.args[1] /\ doc.synthesis.rationale = last.args[2])

\* C6 witness: synthesize("D", "R") called on a created document whose phase
\* was never set (it was "exploration").
Synthesized == born.by = "create" /\ clock = 2 /\ last.op = "synthesize" /\ doc.cognitive_state.phase = "decision" /\ doc.cognitive_state.confidence = 0 /\ doc.synthesis.decision = "D" /\ doc.synthesis.rationale = "R"

\* the Actor approve(approver) constructs
ApproverOf(approver) == [name |-> approver, role |-> "approver", email |-> None]

\* the elements of an optional list (none when it is absent)
Elements(opt) == IF opt = None THEN <<>> ELSE opt[1]

\* C7: every approve(name) succeeds, sets meta.status to "approved", stamps
\* meta.updated_at with the time of the call, and appends exactly one Actor
\* with that name and role "approver" to meta.actors (created when absent),
\* whether or not that name is listed already.
ApproveAppends == [][(IsDRF(doc) /\ last'.op = "approve") => (last'.ok /\ doc'.meta.status = "approved" /\ doc'.meta.updated_at = Some(clock) /\ doc'.meta.actors = Some(Append(Elements(doc.meta.actors), ApproverOf(last'.args[1]))))]_vars

\* C7 witness: approve("Alice") called twice leaves two approver entries.
ApprovedTwice == IsDRF(doc) /\ last.op = "approve" /\ doc.meta.status = "approved" /\ doc.meta.actors = Some(<<ApproverOf("Alice"), ApproverOf("Alice")>>)

\* C8: the document DecisionDocument.create returns is in phase
\* "exploration" with confidence 0, status "draft", empty synthesis texts,
\* empty constraints and objectives, and without reasoning, interventions,
\* assumptions, unresolved_tensions, context_validation and meta.actors.
InitialState == (last.op = "create" /\ last.ok) => (doc.cognitive_state.phase = "exploration" /\ doc.cognitive_state.confidence = 0 /\ doc.meta.status = "draft" /\ doc.synthesis.decision = "" /\ doc.synthesis.rationale = "" /\ doc.context.constraints = <<>> /\ doc.context.objectives = <<>> /\ doc.reasoning = None /\ doc.interventions = None /\ doc.assumptions = None /\ doc.unresolved_tensions = None /\ doc.context_validation = None /\ doc.meta.actors = None)

\* C8 witness: create("X", "Y", domain "Z") returned a document.
Created == last.op = "create" /\ last.ok /\ IsDRF(doc) /\ doc.decision.title = "X" /\ doc.decision.intent = "Y" /\ doc.decision.domain = Some("Z") /\ doc.meta.status = "draft"

\* the document held was decoded from a text from outside
BornOutside == born.by \in {"from_json", "from_yaml"} /\ Len(born.args) = 2

\* the top-level keys of the text the document was decoded from that the
\* root model does not declare
UnknownKeys == ExtraKeys(RootSchema(doc), born.args[2].body)

\* key k of the text the document was decoded from is in the text the last
\* call returned, with the same value
Reemitted(k) == k \in DOMAIN last.out.body /\ Scan(last.out.enc, last.out.body[k]) = Scan(born.args[2].enc, born.args[2].body[k])

\* a valid text with an unknown top-level key decodes
UnknownKeyTolerated == (DecodedOutside /\ ~TextOffends(last.args[2].body) /\ ExtraKeys(ContextDocument, last.args[2].body) \cap ExtraKeys(DecisionDocument, last.args[2].body) # {}) => last.ok

CoercingBuilders == {"set_phase", "add_reasoning_pattern", "add_tension", "add_relationship"}

\* the string a coercing builder was given is not a token of its enum
BadToken(call) ==
  \/ call.op = "set_phase" /\ call.args[1] \notin CognitivePhase
  \/ call.op = "add_reasoning_pattern" /\ call.args[1] \notin ReasoningPattern
  \/ call.op = "add_tension" /\ call.args[2] \notin Impact
  \/ call.op = "add_relationship" /\ call.args[2] \notin RelationshipType

\* C10: set_phase, add_reasoning_pattern, add_tension and add_relationship
\* called with a string that is not a token of the enum fail and leave the
\* document exactly as it was before the call.
AtomicCoercion == [][(last'.op \in CoercingBuilders /\ BadToken(last')) => (~last'.ok /\ last'.err = "ValueError" /\ doc' = doc)]_vars

\* C10 witness: add_tension with the impact "bogus" failed on a document
\* that has no unresolved_tensions list, and none was created.
CoercionRejected == IsDRF(doc) /\ last.op = "add_tension" /\ last.args[2] = "bogus" /\ last.err = "ValueError" /\ doc.unresolved_tensions = None

\* the last call gave a builder a confidence outside 0..100: set_phase (with
\* a valid phase token) or add_assumption
ConfidenceOutOfRange ==
  \/ last.op = "set_phase" /\ last.args[1] \in CognitivePhase /\ last.args[2] \notin 0..100
  \/ last.op = "add_assumption" /\ last.args[2] # None /\ last.args[2][1] \notin 0..100

\* C11 (as stated): a builder call that its method's enum coercion does not
\* reject completes without a ValidationError, whatever its arguments
\* (the confidence of set_phase and add_assumption included).
BuildersNeverInvalid == (last.op \in BuilderOps /\ ~BadToken(last)) => last.err # "ValidationError"

\* C11 (amended): with arguments of the declared types, a builder call
\* raises ValidationError exactly when set_phase (given a valid phase) or
\* add_assumption is given a confidence outside 0..100; every other call that
\* the enum coercion does not reject completes.
BuildersInvalidOnlyOnConfidence == last.op \in BuilderOps => ((last.err = "ValidationError" <=> ConfidenceOutOfRange) /\ (last.err = "ValueError" <=> BadToken(last)) /\ (last.ok <=> ~(ConfidenceOutOfRange \/ BadToken(last))))

\* C11 witness: add_assumption with confidence 101 raised ValidationError.
AssumptionRejected == IsDRF(doc) /\ last.op = "add_assumption" /\ last.args[2] = Some(101) /\ last.err = "ValidationError"

\* the paths whose suffix is ".yaml" or ".yml"
YamlPaths == {<<"d", ".", "y", "a", "m", "l">>, <<"d", ".", "y", "m", "l">>}

\* the encoding the suffix rule gives a path
EncodingFor(path) == IF path \in YamlPaths THEN "yaml" ELSE "json"

\* a step that loads a path whose file is what save writes there for the
\* document held
LoadsSaved == last'.op = "load" /\ disk[last'.args[1]] = save(doc, last'.args[1])

\* C12 (as stated): save(path) writes the YAML encoding exactly when the
\* path's suffix is ".yaml" or ".yml" and the JSON encoding otherwise, and
\* load(path) of the file save wrote for a document d succeeds and returns a
\* document equal to d.
SuffixRoundTrip == [][(last'.op = "save" => disk'[last'.args[1]].enc = EncodingFor(last'.args[1])) /\ (LoadsSaved => (last'.ok /\ doc' = doc))]_vars

\* the last call decoded a text from outside that is one scalar
DecodedScalar == last.op \in {"from_json", "from_yaml"} /\ Len(last.args) = 2 /\ "scalar" \in DOMAIN last.args[2]

\* the text the last decode call was given is not well-formed in the decoder's
\* encoding: the empty text, an unclosed brace or a bare word for JSON, an
\* unclosed brace for YAML, and the block text of to_yaml for JSON
NotWellFormed ==
  \/ DecodedScalar /\ last.args[2].scalar[2] \in (IF last.op = "from_json" THEN {"", "{", "keep"} ELSE {"{"})
  \/ last.op = "from_json" /\ Len(last.args) = 1 /\ last.args[1] = "to_yaml"

\* the text the last decode call was given is well-formed and violates the
\* schema: no mapping at all, or a mapping with an offending value
ViolatesSchema == ~NotWellFormed /\ (DecodedScalar \/ (DecodedOutside /\ TextOffends(last.args[2].body)))

\* C13 (as stated): a decode of text that is not well-formed raises the parse
\* error; a decode of well-formed text that violates the schema (a non-mapping
\* or empty value included) raises the validation error; a decode raises
\* nothing else, and a failed decode of a text from outside yields no document.
ParseThenValidate ==
  last.op \in {"from_json", "from_yaml"} =>
    /\ last.err \in {"none", "ParseError", "ValidationError"}
    /\ NotWellFormed => last.err = "ParseError"
    /\ ViolatesSchema => last.err = "ValidationError"
    /\ (~last.ok /\ Len(last.args) = 2) => doc = NoDoc

\* C14: a builder call leaves the creation timestamp (meta.created_at,
\* provenance.created_at) as it was, so it stays the one the document was
\* constructed with; a successful supersede changes nothing but supersedes,
\* whose superseded_at is the time of the call; approve changes nothing but
\* meta.status, meta.actors and meta.updated_at, which is the time of the call.
CreationTimeKept ==
  [][/\ (IsDoc(doc) /\ last'.op \in BuilderOps) => (CreatedAt(doc') = CreatedAt(doc) /\ CreatedAt(doc') = born.created_at)
     /\ (IsCRF(doc) /\ last'.op = "supersede" /\ last'.ok) => (doc' = [doc EXCEPT !.entity.supersedes = doc'.entity.supersedes] /\ doc'.entity.supersedes[1].superseded_at = Some(clock))
     /\ (IsDRF(doc) /\ last'.op = "approve") => doc' = [doc EXCEPT !.meta.status = "approved", !.meta.actors = doc'.meta.actors, !.meta.updated_at = Some(clock)]]_vars

\* C14 witness: a document created at time 0 and approved at a later time
\* holds both timestamps, each with its own value.
ApprovedLater == IsDRF(doc) /\ born.by = "create" /\ last.op = "approve" /\ doc.meta.created_at = 0 /\ doc.meta.updated_at = Some(clock - 1) /\ clock > 1

RECURSIVE HoldsNull(_)
\* a token that is the null scalar or a map with one somewhere inside
HoldsNull(tok) == (tok[1] = "plain" /\ tok[2] = "null") \/ (tok[1] = "map" /\ \E k \in DOMAIN tok[2] : HoldsNull(tok[2][k]))

\* no optional field of inst that is None is a key of the tree written for it
Omitted(schema, inst, tree) == \A f \in DOMAIN schema : (schema[f].opt /\ inst[f] = None) => f \notin DOMAIN tree

\* the absent fields of a document, of its required sub-records and of its
\* attributes are no keys of the text body written for it
AbsentOmitted(d, body) ==
  IF IsDRF(d)
  THEN Omitted(DecisionDocument, d, body) /\ Omitted(DecisionIdentity, d.decision, body.decision) /\ Omitted(Context, d.context, body.context) /\ Omitted(CognitiveState, d.cognitive_state, body.cognitive_state) /\ Omitted(Synthesis, d.synthesis, body.synthesis) /\ Omitted(Meta, d.meta, body.meta)
  ELSE Omitted(Entity, d.entity, body.entity) /\ (d.entity.attributes # None => Omitted(AttributesSchema(d.entity.attributes[1].cls), d.entity.attributes[1].inst, body.entity.attributes))

ReplacedWholesale ==
  [][/\ (IsDRF(doc) /\ last'.op = "set_phase" /\ last'.ok) => (doc'.cognitive_state = [phase |-> last'.args[1], confidence |-> last'.args[2], phase_notes |-> None] /\ doc' = [doc EXCEPT !.cognitive_state = doc'.cognitive_state])
     /\ (IsCRF(doc) /\ last'.op = "set_validity") => (last'.ok /\ doc'.entity.validity = Some([valid_from |-> last'.args[1], valid_until |-> last'.args[2]]) /\ doc' = [doc EXCEPT !.entity.validity = doc'.entity.validity])
     /\ (IsCRF(doc) /\ last.op = "set_validity" /\ last.args[1] # None /\ last'.op = "set_validity" /\ last'.args[1] = None) => (doc.entity.validity[1].valid_from # None /\ doc'.entity.validity[1].valid_from = None)]_vars

\* C16 witness: a document decoded with phase_notes "N" has no phase_notes
\* after set_phase("analysis", 50).
PhaseNotesDropped == BornOutside /\ IsDRF(doc) /\ "phase_notes" \in DOMAIN born.args[2].body.cognitive_state /\ last.op = "set_phase" /\ last.ok /\ doc.cognitive_state = [phase |-> "analysis", confidence |-> 50, phase_notes |-> None]

\* C17: approve succeeds whatever meta.status, the phase and the synthesis
\* are, and leaves the status "approved"; a builder call on a decision
\* document fails only for its arguments (a token outside its enum, a
\* confidence outside 0..100), never for the status the document is in.
StatusNeverBlocks ==
  [][/\ (IsDRF(doc) /\ last'.op = "approve") => (last'.ok /\ doc'.meta.status = "approved" /\ doc'.cognitive_state = doc.cognitive_state /\ doc'.synthesis = doc.synthesis)
     /\ (IsDRF(doc) /\ last'.op \in BuilderOps /\ ~last'.ok) => (BadToken(last') \/ ConfidenceOutOfRange')]_vars

\* C17 witness: a document decoded with status "rejected" in phase "decision"
\* is approved.
ApprovedFromRejected == BornOutside /\ IsDRF(doc) /\ "meta" \in DOMAIN born.args[2].body /\ born.args[2].body.meta.status = "rejected" /\ last.op = "approve" /\ last.ok /\ doc.meta.status = "approved" /\ doc.cognitive_state.phase = "decision"

\* C18: synthesize(decision, rationale) leaves synthesis exactly the two
\* texts, with alternatives and follow_ups absent whatever they held; and on
\* a document in hand alternatives become present only by add_alternative, so
\* the alternatives present are those added after the last synthesize.
SynthesisReplaced ==
  [][/\ (IsDRF(doc) /\ last'.op = "synthesize") => (last'.ok /\ doc'.synthesis = [decision |-> last'.args[1], rationale |-> last'.args[2], follow_ups |-> None, alternatives |-> None])
     /\ (IsDRF(doc) /\ last'.op \in BuilderOps /\ doc.synthesis.alternatives = None /\ doc'.synthesis.alternatives # None) => (last'.op = "add_alternative" /\ Len(doc'.synthesis.alternatives[1]) = 1)
     /\ (IsDRF(doc) /\ last'.op \in BuilderOps \ {"synthesize", "add_alternative"}) => doc'.synthesis = doc.synthesis]_vars

\* C18 witness: a document decoded with a follow-up in its synthesis holds
\* neither follow_ups nor alternatives after synthesize("D", "R").
FollowUpsDropped == BornOutside /\ IsDRF(doc) /\ "follow_ups" \in DOMAIN born.args[2].body.synthesis /\ last.op = "synthesize" /\ doc.synthesis = [decision |-> "D", rationale |-> "R", follow_ups |-> None, alternatives |-> None]

\* the constructors that are no decoders
Creators == {"create", "create_organization", "create_system", "create_policy", "create_architecture", "create_capability", "create_fact"}

\* an optional value is absent or in the set
AbsentOrIn(opt, S) == opt = None \/ opt[1] \in S

\* the bounds and enums of a decision document as the builders can touch them
DecisionValid(d) ==
  /\ d.cognitive_state.confidence \in 0..100 /\ d.cognitive_state.phase \in CognitivePhase /\ d.meta.status \in DecisionStatus
  /\ Len(d.decision.title) \in 1..200 /\ Len(d.decision.intent) >= 1
  /\ \A i \in 1..Len(Elements(d.assumptions)) : AbsentOrIn(d.assumptions[1][i].confidence, 0..100)
  /\ \A i \in 1..Len(Elements(d.unresolved_tensions)) : d.unresolved_tensions[1][i].impact \in Impact
  /\ \A i \in 1..Len(Elements(d.meta.actors)) : d.meta.actors[1][i].role \in Role
  /\ \A i \in 1..Len(d.context.objectives) : AbsentOrIn(d.context.objectives[i].priority, Priority)
  /\ d.reasoning # None => \A i \in 1..Len(Elements(d.reasoning[1].patterns_applied)) : d.reasoning[1].patterns_applied[1][i] \in ReasoningPattern

\* the bounds and enums of an attributes record, by its class
AttributesValid(a) ==
  CASE a.cls = "OrganizationAttributes" -> AbsentOrIn(a.inst.org_type, OrgType) /\ (a.inst.headcount = None \/ a.inst.headcount[1] >= 1)
    [] a.cls = "SystemAttributes" -> AbsentOrIn(a.inst.status, SystemStatus)
    [] a.cls = "PolicyAttributes" -> AbsentOrIn(a.inst.policy_type, PolicyType)
    [] a.cls = "FactAttributes" -> AbsentOrIn(a.inst.fact_type, FactType) /\ AbsentOrIn(a.inst.confidence, 0..100)
    [] a.cls = "ArchitectureAttributes" -> AbsentOrIn(a.inst.architecture_type, ArchitectureType)
    [] a.cls = "CapabilityAttributes" -> AbsentOrIn(a.inst.coverage, 0..100)

\* the bounds and enums of a context document as the builders can touch them
ContextValid(d) ==
  /\ d.entity.type \in EntityType /\ Len(d.entity.name) \in 1..200
  /\ d.entity.attributes # None => AttributesValid(d.entity.attributes[1])
  /\ \A i \in 1..Len(Elements(d.entity.relationships)) : d.entity.relationships[1][i].type \in RelationshipType

\* C19: a document made by create or a factory and then changed by builder
\* calls, successful or failing, keeps its confidences within 0..100, its enum
\* fields within their enums and its title, name and intent within their
\* length bounds; and a decode of the text serialized from it never fails
\* validation (it succeeds when the decoder is the encoding's own).
BuilderReachableValid ==
  [][/\ (IsDoc(doc') /\ born'.by \in Creators) => IF IsDRF(doc') THEN DecisionValid(doc') ELSE ContextValid(doc')
     /\ (born.by \in Creators /\ last'.op \in {"from_json", "from_yaml", "load"}) => last'.err # "ValidationError"
     /\ (born.by \in Creators /\ RoundTripStep) => last'.ok]_vars

\* C19 witness: a created document on which set_phase("analysis", 50)
\* succeeded and then set_phase("synthesis", 101) and add_assumption with
\* confidence 101 failed still holds confidence 50 and no assumption.
ValidAfterFailures == born.by = "create" /\ last.op = "add_assumption" /\ last.args[2] = Some(101) /\ ~last.ok /\ doc.cognitive_state = [phase |-> "analysis", confidence |-> 50, phase_notes |-> None] /\ Elements(doc.assumptions) = <<>> /\ clock = 4

\* C20 (as stated): when add_assumption, add_tension or add_relationship
\* raises, the document is as it was before the call (a collection that was
\* absent is still absent, not an empty list) and serializes to the same text
\* in both encodings.
FailedBuilderNoChange ==
  [][(IsDoc(doc) /\ last'.op \in {"add_assumption", "add_tension", "add_relationship"} /\ ~last'.ok) => (doc' = doc /\ to_json(doc') = to_json(doc) /\ to_yaml(doc') = to_yaml(doc))]_vars

\* C21: synthesize changes nothing but synthesis and cognitive_state.phase
\* (which becomes "decision"): confidence, phase_notes, context, reasoning,
\* assumptions, unresolved_tensions and meta are as before; approve changes
\* nothing but meta.status, meta.updated_at and meta.actors: synthesis,
\* cognitive_state and context are as before.
FrameKept ==
  [][/\ (IsDRF(doc) /\ last'.op = "synthesize") =>
          /\ doc' = [doc EXCEPT !.synthesis = doc'.synthesis, !.cognitive_state.phase = "decision"]
          /\ doc'.cognitive_state.confidence = doc.cognitive_state.confidence /\ doc'.cognitive_state.phase_notes = doc.cognitive_state.phase_notes
          /\ doc'.context = doc.context /\ doc'.reasoning = doc.reasoning /\ doc'.assumptions = doc.assumptions /\ doc'.unresolved_tensions = doc.unresolved_tensions /\ doc'.meta = doc.meta
     /\ (IsDRF(doc) /\ last'.op = "approve") =>
          /\ doc' = [doc EXCEPT !.meta = [doc.meta EXCEPT !.status = doc'.meta.status, !.updated_at = doc'.meta.updated_at, !.actors = doc'.meta.actors]]
          /\ doc'.synthesis = doc.synthesis /\ doc'.cognitive_state = doc.cognitive_state /\ doc'.context = doc.context]_vars

\* C21 witness: a document decoded in phase "analysis" with confidence 50,
\* phase_notes "N" and status "review" is, after synthesize, in phase
\* "decision" with the same confidence, notes and status.
NotesKeptBySynthesize == BornOutside /\ IsDRF(doc) /\ last.op = "synthesize" /\ doc.cognitive_state = [phase |-> "decision", confidence |-> 50, phase_notes |-> Some("N")] /\ doc.meta.status = "review" /\ doc.synthesis.decision = "D"

====
